---- MODULE Spec2Model ----
(***************************************************************************)
(* Model of history/subscriber/persister.py: the Persister that turns      *)
(* device-data and devices events into MongoDB documents and indexes.      *)
(*                                                                         *)
(* Strings that take part in collection naming are sequences of            *)
(* characters, so that "{}_{}".format is real concatenation.               *)
(* An integer t is the record [q, r] with t = q*1000 + r and 0 <= r < 1000 *)
(* (Python integers are unbounded, TLC's are 32 bits wide).                 *)
(* An instant is <<seconds since epoch, microseconds>>.                    *)
(***************************************************************************)
EXTENDS Integers, Sequences, FiniteSets, TLC

VARIABLES db, started, indexes, store, owners, nEvents, insertCount, last,
          probe, parsed

vars == <<db, started, indexes, store, owners, nEvents, insertCount, last,
          probe, parsed>>

\* number of events delivered in one behaviour
MaxEvents == 2

(***************************************************************************)
(* Input domains                                                           *)
(***************************************************************************)
Tenants == { <<"a">>, <<"a", "_", "b">> }
Devices == { <<"c">>, <<"b", "_", "c">> }

\* the collection named after the tenant alone
CollectionNameTenantOnly(tenant, device_id) == tenant \o <<"_">>

\* "{}_{}".format(tenant, device_id)
CollectionName(tenant, device_id) == tenant \o <<"_">> \o device_id

Collections == { CollectionName(t, d) : t \in Tenants, d \in Devices }

\* time.time() / datetime.utcnow() at the n-th event
Now(n) == <<1600000000 + n, 123456>>

\* (2**31)-1 = ThresholdQ * 1000 + ThresholdR
ThresholdQ == 2147483
ThresholdR == 647

IntV(q, r) == [q |-> q, r |-> r]

\* the kinds of value metadata.timestamp can hold after json.loads
TsAbsent == [kind |-> "absent", v |-> IntV(0, 0)]
TsInt(v) == [kind |-> "int", v |-> v]
\* a string of decimal digits denoting the integer v
TsNumStr(v) == [kind |-> "numstr", v |-> v]
\* a string denoting the non-integer number v + 0.5
TsFloatStr(v) == [kind |-> "floatstr", v |-> v]
\* a string dateutil parses, denoting the instant <<v.q, v.r>>
TsDateStr(v) == [kind |-> "datestr", v |-> v]
\* a string that is neither a number nor a date
TsBadStr == [kind |-> "badstr", v |-> IntV(0, 0)]

IntSamples == { IntV(q, r) : q \in {-1, 0, 1, ThresholdQ, ThresholdQ + 1, 1600000000},
                             r \in {0, ThresholdR, ThresholdR + 1, 999} }

TsProbes == {TsAbsent, TsBadStr}
            \cup { TsInt(v) : v \in IntSamples }
            \cup { TsNumStr(v) : v \in IntSamples }
            \cup { TsFloatStr(v) : v \in IntSamples }
            \cup { TsDateStr(v) : v \in {IntV(1500000000, 0)} }

(***************************************************************************)
(* parse_datetime                                                          *)
(***************************************************************************)
\* timestamp > ((2**31)-1) on an integer
GtThreshold(v) == v.q > ThresholdQ \/ (v.q = ThresholdQ /\ v.r > ThresholdR)

\* datetime.utcfromtimestamp(float(timestamp))
SecondsInstant(v) == <<v.q * 1000 + v.r, 0>>

\* datetime.utcfromtimestamp(val/1000)
MillisInstant(v) == <<v.q, v.r * 1000>>

Parsed(instant, logs) == [raised |-> "none", instant |-> instant, logs |-> logs]
ParseRaised(exc, logs) == [raised |-> exc, instant |-> <<0, 0>>, logs |-> logs]

\* the comparison of line 82 on a str operand: '>' is not supported between
\* str and int, the TypeError is not a ValueError and leaves parse_datetime
NumStrCompare(v) == ParseRaised("TypeError", <<>>)

\* an unparseable string defaulted to the current time
ParseBadStrDefault(now) == Parsed(now, <<"error", "error">>)

\* parse(timestamp) of a string that is no date: dateutil raises a
\* ValueError, which "except TypeError" does not catch
ParseBadStr(now) == ParseRaised("ValueError", <<"error", "error">>)

parse_datetime(timestamp, now) ==
    CASE timestamp.kind = "absent" -> Parsed(now, <<>>)
      [] timestamp.kind = "int" ->
            IF GtThreshold(timestamp.v)
            THEN Parsed(MillisInstant(timestamp.v), <<>>)
            ELSE Parsed(SecondsInstant(timestamp.v), <<>>)
      [] timestamp.kind = "numstr" -> NumStrCompare(timestamp.v)
      [] timestamp.kind = "floatstr" ->
            Parsed(<<timestamp.v.q, timestamp.v.r * 1000 + 500>>, <<"error">>)
      [] timestamp.kind = "datestr" ->
            Parsed(<<timestamp.v.q, timestamp.v.r>>, <<"error", "error">>)
      [] timestamp.kind = "badstr" -> ParseBadStr(now)

NotParsed == [done |-> FALSE, result |-> ParseRaised("none", <<>>)]

(***************************************************************************)
(* Inbound payloads                                                        *)
(***************************************************************************)
Opt(v) == [present |-> TRUE, v |-> v]
None(v) == [present |-> FALSE, v |-> v]

\* data['attrs'] / data['data']['attrs']: a dict, in key order
AttrSamples == { <<>>, << <<"temp", 10>> >>, << <<"temp", 10>>, <<"hum", 50>> >> }

\* timestamps carried by device-data events
TsEvents == { TsAbsent, TsInt(IntV(ThresholdQ, ThresholdR)), TsNumStr(IntV(0, 5)),
              TsFloatStr(IntV(1500000000, 7)), TsDateStr(IntV(1500000000, 0)), TsBadStr }

Metadata(deviceid, timestamp, status) ==
    [present |-> TRUE, deviceid |-> deviceid, timestamp |-> timestamp, status |-> status]

NoMetadata ==
    [present |-> FALSE, deviceid |-> None(<<>>), timestamp |-> TsAbsent, status |-> None("")]

Envelope(metadata, attrs) == [metadata |-> metadata, attrs |-> attrs]

\* json.dumps: the text of a JSON value
json_dumps(value) == [valid |-> TRUE, value |-> value]

\* a payload that is not JSON
NotJSON == [valid |-> FALSE, value |-> Envelope(NoMetadata, <<>>)]

\* json.loads of a valid text
json_loads(text) == text.value

DataMessages ==
    {NotJSON}
    \cup { json_dumps(Envelope(NoMetadata, a)) : a \in {<< <<"temp", 10>> >>} }
    \cup { json_dumps(Envelope(Metadata(None(<<>>), TsAbsent, None("")), a)) :
              a \in {<< <<"temp", 10>> >>} }
    \cup { json_dumps(Envelope(Metadata(Opt(d), t, None("")), a)) :
              d \in Devices, t \in TsEvents, a \in {<< <<"temp", 10>> >>} }
    \cup { json_dumps(Envelope(Metadata(Opt(d), t, s), a)) :
              d \in Devices, t \in {TsAbsent, TsBadStr},
              s \in {None(""), Opt("online")}, a \in AttrSamples }

\* a devices-subject payload: event, meta.service, data.id, data.attrs
Lifecycle(event, service, id, attrs) ==
    [event |-> event, service |-> service, id |-> id, attrs |-> attrs]

NoLifecycle == Lifecycle(None(""), None(<<>>), None(<<>>), None(<<>>))

NotJSONDevices == [valid |-> FALSE, value |-> NoLifecycle]

DevicesMessages ==
    {NotJSONDevices}
    \cup { json_dumps(Lifecycle(None(""), Opt(<<"a">>), Opt(<<"c">>), None(<<>>))) }
    \cup { json_dumps(Lifecycle(Opt(e), None(<<>>), Opt(<<"c">>), None(<<>>))) :
              e \in {"create", "configure"} }
    \cup { json_dumps(Lifecycle(Opt(e), Opt(<<"a">>), None(<<>>), None(<<>>))) :
              e \in {"create", "configure"} }
    \cup { json_dumps(Lifecycle(Opt("configure"), Opt(<<"a">>), Opt(<<"c">>), None(<<>>))) }
    \cup { json_dumps(Lifecycle(Opt("create"), Opt(s), Opt(d), None(<<>>))) :
              s \in Tenants, d \in Devices }
    \cup { json_dumps(Lifecycle(Opt("remove"), Opt(<<"a">>), Opt(<<"c">>), None(<<>>))) }
    \cup { json_dumps(Lifecycle(Opt("configure"), Opt(s), Opt(d), Opt(a))) :
              s \in Tenants, d \in Devices, a \in {<<>>, << <<"fw", 12>> >>} }

\* what the store can do to the calls of one event: nothing, fail the
\* first or the second create_index, fail insert_many
DataFaults == {"no", "insert"}
DevicesFaults(message) ==
    IF message.valid /\ message.value.event.present /\ message.value.event.v = "configure"
    THEN {"no", "insert"} ELSE {"no", "first", "second"}

(***************************************************************************)
(* handle_event_data                                                       *)
(***************************************************************************)
AttrDoc(attr, value, device_id, ts) ==
    [attr |-> attr, value |-> value, device_id |-> device_id, ts |-> ts]

StatusDoc(status, device_id, ts) ==
    [status |-> status, device_id |-> device_id, ts |-> ts]

\* the loop over data.get('attrs', {}).keys()
AttrDocs(attrs, device_id, ts) ==
    [i \in 1..Len(attrs) |-> AttrDoc(attrs[i][1], attrs[i][2], device_id, ts)]

\* the status document forgotten
StatusDocsNone(status, device_id, ts) == <<>>

\* metadata.get('status', None) and its document
StatusDocs(status, device_id, ts) ==
    IF status.present THEN <<StatusDoc(status.v, device_id, ts)>> ELSE <<>>

BuildDocs(data, device_id, ts) ==
    AttrDocs(data.attrs, device_id, ts) \o StatusDocs(data.metadata.status, device_id, ts)

\* one execution of self.db[collection_name].insert_many(docs); with the
\* handle absent the subscript raises before the store is reached
InsertMany(dbh, collection_name, docs, storeFails) ==
    [coll |-> collection_name, docs |-> docs,
     result |-> IF dbh = "none" \/ storeFails THEN "error" ELSE "ok"]

Handled(outcome, logs, docs, inserts, provisions, indexCalls) ==
    [outcome |-> outcome, logs |-> logs, docs |-> docs, inserts |-> inserts,
     provisions |-> provisions, indexCalls |-> indexCalls]

\* a failed insert_many tried a second time
PersistDocsRetry(dbh, tenant, device_id, docs, storeFails, logs) ==
    LET call == InsertMany(dbh, CollectionName(tenant, device_id), docs, storeFails)
    IN  Handled("returned",
                IF call.result = "ok" THEN logs ELSE logs \o <<"warn">>,
                docs, IF call.result = "ok" THEN <<call>> ELSE <<call, call>>, <<>>, <<>>)

\* the "if docs:" branch
PersistDocs(dbh, tenant, device_id, docs, storeFails, logs) ==
    LET call == InsertMany(dbh, CollectionName(tenant, device_id), docs, storeFails)
    IN  Handled("returned",
                IF call.result = "ok" THEN logs ELSE logs \o <<"warn">>,
                docs, <<call>>, <<>>, <<>>)

handle_event_data(tenant, message, now, dbh, storeFails) ==
    IF ~message.valid
    THEN Handled("returned", <<"error">>, <<>>, <<>>, <<>>, <<>>)
    ELSE LET data == json_loads(message)
             metadata == data.metadata
             device_id == metadata.deviceid
         IN  IF ~metadata.present \/ ~device_id.present
             THEN Handled("returned", <<"info", "debug", "error">>, <<>>, <<>>, <<>>, <<>>)
             ELSE LET p == parse_datetime(metadata.timestamp, now)
                      logs == <<"info", "debug">> \o p.logs
                      docs == BuildDocs(data, device_id.v, p.instant)
                  IN  IF p.raised # "none"
                      THEN Handled("raised", logs, <<>>, <<>>, <<>>, <<>>)
                      ELSE IF docs # <<>>
                      THEN PersistDocs(dbh, tenant, device_id.v, docs, storeFails, logs)
                      ELSE Handled("returned", logs \o <<"info">>, <<>>, <<>>, <<>>, <<>>)

(***************************************************************************)
(* create_indexes, parse_message, handle_event_devices                     *)
(***************************************************************************)
CreateIndex(collection_name, index, fails) ==
    [coll |-> collection_name, index |-> index,
     result |-> IF fails THEN "error" ELSE "ok"]

\* the create_index calls create_indexes gets through to the store:
\* none with the handle absent, the second only after the first succeeded
create_indexes(dbh, collection_name, idxFail) ==
    IF dbh = "none" THEN <<>>
    ELSE IF idxFail = "first" THEN <<CreateIndex(collection_name, "desc", TRUE)>>
    ELSE <<CreateIndex(collection_name, "desc", FALSE),
           CreateIndex(collection_name, "ttl", idxFail = "second")>>

\* create_indexes ran to its end
Provisioned(calls) == Len(calls) = 2 /\ calls[2].result = "ok"

\* the collection named after the tenant the callback was invoked with
LifecycleCollectionOfTenant(tenant, data) == CollectionName(tenant, data.id.v)

\* the collection a lifecycle event provisions
LifecycleCollection(tenant, data) == CollectionName(data.service.v, data.id.v)

\* the tenant handle_event_devices hands to handle_event_data
ConfigureTenant(tenant, data) == tenant

\* int(time.time() * 1000) as json carries it
MillisOf(now) == TsInt(IntV(now[1], now[2] \div 1000))

parse_message(data, now) ==
    json_dumps(Envelope(Metadata(Opt(data.id.v), MillisOf(now), None("")), data.attrs.v))

\* an exception leaves handle_event_devices: nothing in it catches one
DevicesRaised(logs, provisions, indexCalls) ==
    Handled("raised", logs, <<>>, <<>>, provisions, indexCalls)

handle_event_devices(tenant, message, now, dbh, idxFail, storeFails) ==
    IF ~message.valid
    THEN DevicesRaised(<<>>, <<>>, <<>>)
    ELSE LET data == json_loads(message) IN
         IF ~data.event.present
         THEN DevicesRaised(<<"info">>, <<>>, <<>>)
         ELSE IF data.event.v # "configure"
         THEN IF ~data.service.present \/ ~data.id.present
              THEN DevicesRaised(<<"info">>, <<>>, <<>>)
              ELSE LET collection_name == LifecycleCollection(tenant, data)
                       calls == create_indexes(dbh, collection_name, idxFail)
                   IN  IF Provisioned(calls)
                       THEN Handled("returned", <<"info">>, <<>>, <<>>,
                                    <<collection_name>>, calls)
                       ELSE DevicesRaised(<<"info">>, <<collection_name>>, calls)
         ELSE IF ~data.attrs.present \/ ~data.id.present \/ ~data.service.present
              THEN DevicesRaised(<<"info">>, <<>>, <<>>)
              ELSE LET r == handle_event_data(ConfigureTenant(tenant, data),
                                              parse_message(data, now), now, dbh, storeFails)
                   IN  [r EXCEPT !.logs = <<"info", "info">> \o @]

(***************************************************************************)
(* The store and the event loop                                            *)
(***************************************************************************)
\* what the store holds after the insert_many calls of one event
ApplyInserts(st, inserts) ==
    [c \in Collections |->
        IF \E i \in 1..Len(inserts) : inserts[i].coll = c /\ inserts[i].result = "ok"
        THEN st[c] \o inserts[1].docs ELSE st[c]]

\* the indexes the store holds after the create_index calls of one event
ApplyIndexes(ix, calls) ==
    [c \in Collections |->
        ix[c] \cup { calls[i].index : i \in { j \in 1..Len(calls) :
                                             calls[j].coll = c /\ calls[j].result = "ok" } }]

\* the (tenant, device) pairs whose documents each collection received
ApplyOwners(ow, inserts, tenant) ==
    [c \in Collections |->
        IF \E i \in 1..Len(inserts) : inserts[i].coll = c /\ inserts[i].result = "ok"
        THEN ow[c] \cup { <<tenant, inserts[1].docs[1].device_id>> } ELSE ow[c]]

NoEvent ==
    [subject |-> "none", tenant |-> <<>>, data |-> NotJSON, dev |-> NotJSONDevices,
     at |-> Now(0), dbh |-> "none",
     r |-> Handled("returned", <<>>, <<>>, <<>>, <<>>, <<>>)]

Init ==
    /\ db = "none"
    /\ started = FALSE
    /\ indexes = [c \in Collections |-> {}]
    /\ store = [c \in Collections |-> <<>>]
    /\ owners = [c \in Collections |-> {}]
    /\ nEvents = 0
    /\ insertCount = 0
    /\ last = NoEvent
    /\ probe = TsAbsent
    /\ parsed = NotParsed

\* main(): persister.init_mongodb(), then the callbacks are registered
InitMongodb ==
    /\ ~started
    /\ started' = TRUE
    /\ \E ok \in BOOLEAN : db' = IF ok THEN "ok" ELSE "none"
    /\ UNCHANGED <<indexes, store, owners, nEvents, insertCount, last, probe, parsed>>

Deliver(subject, tenant, data, dev, r) ==
    /\ store' = ApplyInserts(store, r.inserts)
    /\ indexes' = ApplyIndexes(indexes, r.indexCalls)
    /\ owners' = ApplyOwners(owners, r.inserts, tenant)
    /\ nEvents' = nEvents + 1
    /\ insertCount' = insertCount + Len(r.inserts)
    /\ last' = [subject |-> subject, tenant |-> tenant, data |-> data, dev |-> dev,
                at |-> Now(nEvents), dbh |-> db, r |-> r]
    /\ UNCHANGED <<db, started, probe, parsed>>

\* the "message" callback of the device-data subject
HandleEventData ==
    /\ started
    /\ nEvents < MaxEvents
    /\ \E tenant \in Tenants, message \in DataMessages, fault \in DataFaults :
          Deliver("device-data", tenant, message, NotJSONDevices,
                  handle_event_data(tenant, message, Now(nEvents), db, fault = "insert"))

\* the "message" callback of the devices subject
HandleEventDevices ==
    /\ started
    /\ nEvents < MaxEvents
    /\ \E tenant \in Tenants, message \in DevicesMessages :
          \E fault \in DevicesFaults(message) :
          Deliver("devices", tenant, NotJSON, message,
                  handle_event_devices(tenant, message, Now(nEvents), db, fault,
                                       fault = "insert"))

Next == InitMongodb \/ HandleEventData \/ HandleEventDevices

Spec == Init /\ [][Next]_vars

(***************************************************************************)
(* parse_datetime on its own                                               *)
(***************************************************************************)
InitParse ==
    /\ db = "none"
    /\ started = FALSE
    /\ indexes = [c \in Collections |-> {}]
    /\ store = [c \in Collections |-> <<>>]
    /\ owners = [c \in Collections |-> {}]
    /\ nEvents = 0
    /\ insertCount = 0
    /\ last = NoEvent
    /\ probe \in TsProbes
    /\ parsed = NotParsed

ParseDatetime ==
    /\ ~parsed.done
    /\ parsed' = [done |-> TRUE, result |-> parse_datetime(probe, Now(0))]
    /\ UNCHANGED <<db, started, indexes, store, owners, nEvents, insertCount, last, probe>>

NextParse == ParseDatetime

SpecParse == InitParse /\ [][NextParse]_vars

(***************************************************************************)
(* Properties                                                              *)
(***************************************************************************)
E == last.data.value
L == last.dev.value

HasUnderscore(str) == \E i \in 1..Len(str) : str[i] = "_"

\* a well-formed devices event that is not "configure"
NonConfigure ==
    /\ last.subject = "devices" /\ last.dev.valid
    /\ L.event.present /\ L.event.v # "configure"
    /\ L.service.present /\ L.id.present

\* a well-formed "configure" devices event
Configure ==
    /\ last.subject = "devices" /\ last.dev.valid
    /\ L.event.present /\ L.event.v = "configure"
    /\ L.service.present /\ L.id.present /\ L.attrs.present

\* a device-data event with metadata and metadata.deviceid
Traceable ==
    /\ last.subject = "device-data" /\ last.data.valid
    /\ E.metadata.present /\ E.metadata.deviceid.present

\* C1: a devices event that is not "configure", with meta.service = s and
\* data.id = d, calls create_indexes for the collection s_d and no other,
\* asks the store for the descending ts index and then the TTL ts index of
\* s_d, leaves both on s_d when it returns, and makes no insert_many call.
C1_ProvisionOnly ==
    NonConfigure =>
        LET name == L.service.v \o <<"_">> \o L.id.v
            calls == last.r.indexCalls
        IN  /\ last.r.provisions = <<name>>
            /\ last.r.inserts = <<>>
            /\ last.r.docs = <<>>
            /\ \A i \in 1..Len(calls) : calls[i].coll = name
            /\ last.dbh = "ok" =>
                  /\ Len(calls) >= 1 /\ calls[1].index = "desc"
                  /\ calls[1].result = "ok" => (Len(calls) = 2 /\ calls[2].index = "ttl")
            /\ last.r.outcome = "returned" => indexes[name] = {"desc", "ttl"}

C1_Witness ==
    /\ NonConfigure
    /\ last.tenant # L.service.v
    /\ last.r.outcome = "returned"
    /\ Len(last.r.indexCalls) = 2

\* C2: a "configure" devices event with meta.service = s, data.id = d and
\* data.attrs = A, whatever tenant the callback is invoked with, persists
\* one attribute document per key of A, stamped with the processing
\* instant, into the collection s_d.
C2_ConfigureIntoServiceCollection ==
    Configure =>
        LET A == L.attrs.v
            ts == <<last.at[1], (last.at[2] \div 1000) * 1000>>
        IN  /\ last.r.outcome = "returned"
            /\ last.r.docs = [i \in 1..Len(A) |->
                                [attr |-> A[i][1], value |-> A[i][2],
                                 device_id |-> L.id.v, ts |-> ts]]
            /\ A # <<>> =>
                  /\ Len(last.r.inserts) = 1
                  /\ last.r.inserts[1].coll = L.service.v \o <<"_">> \o L.id.v
                  /\ last.r.inserts[1].docs = last.r.docs

C4_StoredImpliesProvisioned ==
    \A c \in Collections : store[c] # <<>> => indexes[c] = {"desc", "ttl"}

\* C5: a timestamp denoting the integer t, given as an integer or as a
\* numeric string, parses to t seconds since epoch when t <= 2^31-1 and to
\* t milliseconds since epoch when t > 2^31-1.
C5_IntegerTimestamps ==
    (parsed.done /\ probe.kind \in {"int", "numstr"}) =>
        /\ parsed.result.raised = "none"
        /\ parsed.result.instant =
              IF probe.v.q > 2147483 \/ (probe.v.q = 2147483 /\ probe.v.r > 647)
              THEN <<probe.v.q, probe.v.r * 1000>>
              ELSE <<probe.v.q * 1000 + probe.v.r, 0>>

\* C6: an error while provisioning the indexes of a devices event is logged
\* as a warning and swallowed: the handler returns.
C6_ProvisioningErrorSwallowed ==
    (NonConfigure /\ ~Provisioned(last.r.indexCalls)) =>
        /\ last.r.outcome = "returned"
        /\ \E i \in 1..Len(last.r.logs) : last.r.logs[i] = "warn"

\* C7: a malformed payload on either subject (not JSON, or a required
\* field missing) is dropped: no insert_many, an error-level log entry,
\* and the handler returns.
C7_MalformedDropped ==
    (\/ last.subject = "device-data" /\ ~Traceable
     \/ /\ last.subject = "devices"
        /\ ~(last.dev.valid /\ L.event.present /\ L.service.present /\ L.id.present))
    =>  /\ last.r.inserts = <<>>
        /\ last.r.outcome = "returned"
        /\ \E i \in 1..Len(last.r.logs) : last.r.logs[i] = "error"

BadTimestamp(ev) ==
    /\ ev.subject = "device-data" /\ ev.data.valid
    /\ ev.data.value.metadata.present /\ ev.data.value.metadata.deviceid.present
    /\ ev.data.value.metadata.timestamp.kind = "badstr"

\* C8: a timestamp that is present but neither a number nor a date makes
\* parse_datetime raise; the event carrying it builds no document with a
\* defaulted instant, makes no insert_many call, and leaves the store, the
\* indexes and the database handle as they were.
C8_UnparseableRaises ==
    /\ [](BadTimestamp(last) =>
            /\ last.r.outcome = "raised"
            /\ last.r.docs = <<>>
            /\ last.r.inserts = <<>>)
    /\ [][(nEvents' = nEvents + 1 /\ BadTimestamp(last')) =>
            (store' = store /\ indexes' = indexes /\ db' = db /\ insertCount' = insertCount)]_vars

C8_Witness ==
    /\ BadTimestamp(last)
    /\ last.dbh = "ok"
    /\ Len(E.attrs) = 2
    /\ last.r.outcome = "raised"
    /\ nEvents = 2

InsertFailed(ev) ==
    /\ ev.r.inserts # <<>>
    /\ ev.r.inserts[1].result = "error"

\* C9: when the bulk insert of a non-empty batch fails, handle_event_data
\* logs a warning, makes no second attempt, stores nothing and returns; no
\* event issues more than one insert_many.
C9_FailedInsertDropped ==
    /\ [](/\ Len(last.r.inserts) <= 1
          /\ insertCount <= nEvents
          /\ InsertFailed(last) =>
                /\ last.r.outcome = "returned"
                /\ last.r.logs[Len(last.r.logs)] = "warn"
                /\ last.r.inserts[1].docs # <<>>)
    /\ [][(nEvents' = nEvents + 1 /\ InsertFailed(last')) =>
            (store' = store /\ insertCount' = insertCount + 1)]_vars

C9_Witness ==
    /\ InsertFailed(last)
    /\ last.dbh = "ok"
    /\ last.subject = "device-data"
    /\ insertCount = 2

\* C10 as stated: no collection receives the documents of two different
\* (tenant, device id) pairs.
C10_OnePairPerCollection ==
    \A c \in Collections : Cardinality(owners[c]) <= 1

\* C10: two different (tenant, device id) pairs never insert into the same
\* collection when neither tenant contains "_", or neither device id does.
C10_OnePairWithoutUnderscore ==
    \A c \in Collections : \A p1, p2 \in owners[c] :
        (/\ p1 # p2
         /\ \/ ~HasUnderscore(p1[1]) /\ ~HasUnderscore(p2[1])
            \/ ~HasUnderscore(p1[2]) /\ ~HasUnderscore(p2[2]))
        => FALSE

C10_Witness ==
    \E c1, c2 \in Collections :
        /\ c1 # c2
        /\ \E p1 \in owners[c1], p2 \in owners[c2] :
              /\ p1[1] = p2[1] /\ ~HasUnderscore(p1[1])
              /\ p1[2] # p2[2]

====
